---- MODULE Spec2Model ----
(***************************************************************************)
(* Character image ingestion of the chat backend: multer staging, the      *)
(* createCharacter / updateCharacter handlers, the Bunny.net and local     *)
(* storage services, the Character collection and the id-conversion        *)
(* script.  A handler is split at its awaits: between two steps of one     *)
(* request the steps of the other request, the script and the clock may    *)
(* run.  Database outages are not modelled; the unique index on            *)
(* Character.id is.                                                        *)
(***************************************************************************)
EXTENDS Integers, FiniteSets, Sequences, TLC

\* ---------------------------------------------------------------- bounds
MaxTime == 1
NumRands == 1
MaxFiles == 2
MaxDim == 2400
MaxDisconnects == 4

\* ------------------------------------------------------ program constants
RandMin == 100000
TsMod == 10000

Reqs == {"r1", "r2"}
Before(a, b) == a = "r1" /\ b = "r2"
Roles == {"profile", "background"}
ImageNames == {"a.png"}
BackgroundNames == {"b.png"}
FileNames == ImageNames \cup BackgroundNames
Rands == RandMin .. (RandMin + NumRands - 1)
Times == 0 .. MaxTime

\* ------------------------------------------------------------ identifiers
\* A character id is a string in the code.  The model keeps what the code
\* looks at: whether it has the UUID shape (a hyphen, or more than ten
\* characters) and, for a short id, its two concatenated parts.
NoId == [uuid |-> FALSE, rand |-> 0, ts |-> 0]
LegacyId == [uuid |-> TRUE, rand |-> 0, ts |-> 0]
UnknownId == [uuid |-> FALSE, rand |-> 1, ts |-> 0]

generateShortId(randomNum, t) == [uuid |-> FALSE, rand |-> randomNum, ts |-> t % TsMod]

IsUuid(id) == id.uuid

\* --------------------------------------------------------- keys and URLs
NoKey == [owner |-> NoId, role |-> "none", ts |-> 0]
NoUrl == [base |-> "none", key |-> NoKey]

\* a key without the timestamp
BuildKey_noTimestamp(characterId, isBackground, t) ==
  [owner |-> characterId,
   role |-> IF isBackground THEN "background" ELSE "profile",
   ts |-> 0]

\* characters/<characterId>/<imageType>-<Date.now()>.webp
BuildKey(characterId, isBackground, t) ==
  [owner |-> characterId,
   role |-> IF isBackground THEN "background" ELSE "profile",
   ts |-> t]

getCdnUrl(filePath) == [base |-> "cdn", key |-> filePath]
\* a local save that answers with the CDN address of the key
getPublicUrl_cdn(filePath) == [base |-> "cdn", key |-> filePath]
getPublicUrl(filePath) == [base |-> "local", key |-> filePath]

\* String.prototype.replace(oldId, newId) on a URL: the id occurs in the
\* URL as the owner directory of the key.
ReplaceId(url, oldId, newId) ==
  IF url.key.owner = oldId
  THEN [url EXCEPT !.key = [url.key EXCEPT !.owner = newId]]
  ELSE url

\* ------------------------------------------------------------ temp files
NoFile == [ts |-> 0, name |-> ""]
Paths == [ts : Times, name : FileNames]

\* `${Date.now()}-${file.originalname}`
filename(t, originalname) == [ts |-> t, name |-> originalname]

VARIABLES
  now,          \* the millisecond clock read by Date.now()
  reqs,         \* the two request handlers: position and locals
  characters,   \* the Character collection
  remoteStore,  \* keys held by the Bunny storage zone
  localStore,   \* keys held under public/images
  tempFiles,    \* uploads/temp: path -> "absent" | "valid" | "invalid"
  gallery,      \* what Bunny lists for the gallery folders (videos/, carasouls/)
  ret,          \* the last call made to a storage service or gallery handler
  server        \* the process of server.js: connection, timers, listeners

vars == <<now, reqs, characters, remoteStore, localStore, tempFiles, gallery, ret, server>>

\* ------------------------------------------------------------- responses
NoResp == [status |-> 0, message |-> "", image |-> NoUrl, backgroundImage |-> NoUrl,
           causes |-> {}, characters |-> {}]

\* res.status(s).json({ message }): the body holds the fixed message only
ErrorBody(s, msg) == [status |-> s, message |-> msg, image |-> NoUrl,
                      backgroundImage |-> NoUrl, causes |-> {}, characters |-> {}]

\* transformedCharacter: image.uri and backgroundImage.uri
transformedCharacter(s, doc) == [status |-> s, message |-> "", image |-> doc.imageUrl,
                                 backgroundImage |-> doc.backgroundImageUrl, causes |-> {},
                                 characters |-> {}]

\* --------------------------------------------------------------- records
NoDoc == [oid |-> 0, id |-> NoId, name |-> "", imageUrl |-> NoUrl,
          backgroundImageUrl |-> NoUrl, isActive |-> FALSE, updatedAt |-> 0]

\* What one upload of a request did: the outcome of the Bunny call and of
\* the local call ("none" not made, "ok", "fail" the PUT / disk write
\* failed, "txfail" sharp failed, "sent" the PUT got no response) and the
\* Date.now() the last key of the upload was built from: that of the
\* stored object once one is stored.
NoUpload == [remote |-> "none", local |-> "none", at |-> 0]

IdleReq == [pc |-> "idle", kind |-> "none", cur |-> "profile", characterId |-> NoId,
            name |-> "", description |-> "", personality |-> "",
            image |-> NoFile, backgroundImage |-> NoFile,
            doc |-> NoDoc, mod |-> {}, messageCount |-> 0,
            uncensored |-> TRUE, provider |-> "none",
            up |-> [x \in Roles |-> NoUpload],
            resp |-> NoResp]

\* A character stored before the short ids were introduced: UUID id, its
\* profile image uploaded to Bunny under that id.
LegacyKey == BuildKey(LegacyId, FALSE, 0 - 1)
LegacyChar == [oid |-> 1, id |-> LegacyId, name |-> "x",
               imageUrl |-> getCdnUrl(LegacyKey), backgroundImageUrl |-> NoUrl,
               isActive |-> TRUE, updatedAt |-> 0]

\* the pixel size of an image; NoSize where there is none
NoSize == [width |-> 0, height |-> 0]

\* no call made yet
NoRet == [fn |-> "none", n |-> 0, arg |-> NoKey, outcome |-> "", threw |-> FALSE,
          url |-> NoUrl, ok |-> FALSE, list |-> << >>,
          image |-> NoSize, options |-> NoSize, info |-> NoSize]

\* The process once it serves requests: connected, one listener.
Listening == [readyState |-> "connected", connects |-> 0, timers |-> 0, listens |-> 1,
              errors |-> 0, exit |-> "", disconnects |-> 0]

InitServer ==
  /\ now = 0
  /\ reqs = [r \in Reqs |-> IdleReq]
  /\ characters = {LegacyChar}
  /\ remoteStore = {LegacyKey}
  /\ localStore = {}
  /\ tempFiles = [p \in Paths |-> "absent"]

Init ==
  /\ InitServer
  /\ gallery = << >>
  /\ ret = NoRet
  /\ server = Listening

\* ------------------------------------------------------------------ clock
Tick ==
  /\ now < MaxTime
  /\ now' = now + 1
  /\ UNCHANGED <<reqs, characters, remoteStore, localStore, tempFiles, gallery, ret, server>>

\* ----------------------------------------------------------------- multer
\* upload.fields([image, backgroundImage]) with diskStorage: every file of
\* the request is written to uploads/temp, then the handler runs.
Stage(files, t, imgName, imgContent, bgName, bgContent) ==
  [p \in Paths |->
     IF bgContent # "absent" /\ p = filename(t, bgName) THEN bgContent
     ELSE IF imgContent # "absent" /\ p = filename(t, imgName) THEN imgContent
     ELSE files[p]]

\* req.files.image[0].path / req.files.backgroundImage[0].path
StagedPath(t, name, content) == IF content = "absent" THEN NoFile ELSE filename(t, name)

Contents == {"absent", "valid", "invalid"}

\* ------------------------------------------------------------ helpers
FileOf(q, x) == IF x = "background" THEN q.backgroundImage ELSE q.image

\* sharp(path)...webp().toBuffer(): succeeds iff the file is there and
\* decodes
Transform(files, path) == path # NoFile /\ files[path] = "valid"

\* if (fs.existsSync(p)) fs.unlinkSync(p)
Unlink(files, path) == [p \in Paths |-> IF p = path THEN "absent" ELSE files[p]]

\* Assignment to a path of the in-memory mongoose document; a path whose
\* value changes is marked modified.
SetUrl(q, x, url) ==
  IF x = "background"
  THEN [q EXCEPT !.doc.backgroundImageUrl = url,
                 !.mod = IF url = q.doc.backgroundImageUrl THEN @
                         ELSE @ \cup {"backgroundImageUrl"}]
  ELSE [q EXCEPT !.doc.imageUrl = url,
                 !.mod = IF url = q.doc.imageUrl THEN @ ELSE @ \cup {"imageUrl"}]

\* Where the handler goes once the upload of role x is over (stored, or
\* for the background given up).
Continue(q, x) ==
  IF x = "profile" /\ q.backgroundImage # NoFile
  THEN [q EXCEPT !.pc = "remote", !.cur = "background"]
  ELSE [q EXCEPT !.pc = "save"]

\* first step of a handler that has files to process
FirstUpload(q) ==
  IF q.image # NoFile THEN [q EXCEPT !.pc = "remote", !.cur = "profile"]
  ELSE IF q.backgroundImage # NoFile THEN [q EXCEPT !.pc = "remote", !.cur = "background"]
  ELSE [q EXCEPT !.pc = "save"]

Respond(q, resp) == [q EXCEPT !.pc = "done", !.resp = resp]

\* The handlers are interchangeable: the next request is taken by the
\* first one that is free.
Free(r) == reqs[r].pc = "idle" /\ \A o \in Reqs : reqs[o].pc = "idle" => ~Before(o, r)

\* ---------------------------------------------------- createCharacter
\* a validation that forgets the personality
ValidationError_noPersonality(name, description, personality, image) ==
  IF name = "" \/ description = ""
  THEN "Please provide name, description, and personality"
  ELSE IF image = NoFile THEN "Character image is required"
  ELSE ""

\* the two validation blocks; "" when the request passes
ValidationError(name, description, personality, image) ==
  IF name = "" \/ description = "" \/ personality = ""
  THEN "Please provide name, description, and personality"
  ELSE IF image = NoFile THEN "Character image is required"
  ELSE ""

\* multer, then createCharacter up to its first await
createCharacter(r) ==
  /\ Free(r)
  /\ \E name \in {"", "y"}, description \in {"", "d"}, personality \in {"", "p"},
        imgName \in ImageNames, bgName \in BackgroundNames,
        imgContent \in Contents, bgContent \in Contents, randomNum \in Rands :
       LET image == StagedPath(now, imgName, imgContent)
           backgroundImage == StagedPath(now, bgName, bgContent)
           q == [IdleReq EXCEPT !.kind = "create", !.name = name,
                                !.description = description, !.personality = personality,
                                !.image = image, !.backgroundImage = backgroundImage]
           error == ValidationError(name, description, personality, image)
       IN
       /\ tempFiles' = Stage(tempFiles, now, imgName, imgContent, bgName, bgContent)
       /\ reqs' = [reqs EXCEPT ![r] =
            IF error # ""
            THEN Respond(q, ErrorBody(400, error))
            ELSE [q EXCEPT !.pc = "remote", !.cur = "profile",
                           !.characterId = generateShortId(randomNum, now)]]
  /\ UNCHANGED <<now, characters, remoteStore, localStore, gallery, ret, server>>

\* ---------------------------------------------------- updateCharacter
FindOne(docs, id) == {c \in docs : c.id = id}

\* multer, then updateCharacter up to the first upload (or to the save)
updateCharacter(r) ==
  /\ Free(r)
  /\ \E id \in {c.id : c \in characters} \cup {UnknownId}, name \in {"", "y"},
        imgName \in ImageNames, bgName \in BackgroundNames,
        imgContent \in Contents, bgContent \in Contents :
       LET q == [IdleReq EXCEPT !.kind = "update", !.characterId = id, !.name = name,
                                !.image = StagedPath(now, imgName, imgContent),
                                !.backgroundImage = StagedPath(now, bgName, bgContent)]
       IN
       /\ tempFiles' = Stage(tempFiles, now, imgName, imgContent, bgName, bgContent)
       /\ reqs' = [reqs EXCEPT ![r] =
            IF FindOne(characters, id) = {}
            THEN Respond(q, ErrorBody(404, "Character not found"))
            ELSE LET character == CHOOSE c \in FindOne(characters, id) : TRUE IN
                 FirstUpload(IF name # "" /\ name # character.name
                             THEN [q EXCEPT !.doc = [character EXCEPT !.name = name],
                                            !.mod = {"name"}]
                             ELSE [q EXCEPT !.doc = character])]
  /\ UNCHANGED <<now, characters, remoteStore, localStore, gallery, ret, server>>

\* ------------------------------------------------- bunnyStorageService
\* What an axios call can come to: a 2xx response, a response with another
\* status, a network error, a timeout reported by the transport, or "none":
\* no response at all.  The calls pass no timeout option, so with "none" the
\* promise stays pending.
HttpOutcomes == {"2xx", "non2xx", "network", "timeout", "none"}

\* an upload that answers with the URL whatever the PUT came to
uploadFile_swallow(store, filePath, put) ==
  [store |-> IF put = "2xx" THEN store \cup {filePath} ELSE store,
   threw |-> FALSE, url |-> getCdnUrl(filePath)]

\* an upload that stores the object but answers with the URL of another key
uploadFile_otherUrl(store, filePath, put) ==
  IF put = "2xx"
  THEN [store |-> store \cup {filePath}, threw |-> FALSE,
        url |-> getCdnUrl([filePath EXCEPT !.ts = @ + 1])]
  ELSE [store |-> store, threw |-> TRUE, url |-> NoUrl]

\* uploadFile(fileBuffer, filePath, contentType), for a PUT that settles:
\* axios resolves on 2xx and rejects on everything else
uploadFile(store, filePath, put) ==
  IF put = "2xx"
  THEN [store |-> store \cup {filePath}, threw |-> FALSE, url |-> getCdnUrl(filePath)]
  ELSE [store |-> store, threw |-> TRUE, url |-> NoUrl]

\* The status of a DELETE that reaches the storage zone: Bunny answers 404
\* for an object it does not hold.
DeleteStatus(store, filePath, http) ==
  IF http = "2xx" /\ filePath \notin store THEN "non2xx" ELSE http

\* deleteFile(filePath) of the Bunny service, for a DELETE that settles
bunnyDeleteFile(store, filePath, http) ==
  IF DeleteStatus(store, filePath, http) = "2xx"
  THEN [store |-> store \ {filePath}, threw |-> FALSE, ok |-> TRUE]
  ELSE [store |-> store, threw |-> TRUE, ok |-> FALSE]

\* The folder of a key, `characters/<characterId>/`, and the name of the
\* object in it, `<imageType>-<Date.now()>.webp`.
FolderOf(filePath) == [owner |-> filePath.owner, role |-> "none", ts |-> 0]
NameOf(filePath) == [role |-> filePath.role, ts |-> filePath.ts]

\* `${path}${file.ObjectName}`
Join(path, ObjectName) == [owner |-> path.owner, role |-> ObjectName.role, ts |-> ObjectName.ts]

\* a set as a sequence, in the order the storage lists it
RECURSIVE SeqOf(_)
SeqOf(S) ==
  IF S = {} THEN << >>
  ELSE LET first == CHOOSE e \in S : TRUE IN <<first>> \o SeqOf(S \ {first})

\* the entries of the objects the zone holds in a folder of characters/
Entries(store, path) ==
  SeqOf({[ObjectName |-> NameOf(k), IsDirectory |-> FALSE] :
           k \in {o \in store : FolderOf(o) = path}})

\* listFiles(path), for a GET that settles: response.data is what the zone
\* holds in the folder
listFiles(entries, http) ==
  IF http = "2xx"
  THEN [threw |-> FALSE, list |-> entries]
  ELSE [threw |-> TRUE, list |-> << >>]

\* ------------------------------------------- the storage attempt chain
\* a remote attempt after whose success the local save is made as well
RemoteAttempt_thenLocal(r) ==
  LET q == reqs[r]
      x == q.cur
      filePath == BuildKey(q.characterId, x = "background", now)
  IN
  /\ q.pc = "remote"
  /\ IF ~Transform(tempFiles, FileOf(q, x))
     THEN /\ reqs' = [reqs EXCEPT ![r] = [q EXCEPT !.pc = "local", !.up[x].remote = "txfail"]]
          /\ UNCHANGED <<remoteStore, tempFiles>>
     ELSE \E put \in HttpOutcomes :
            IF put = "none"
            THEN /\ reqs' = [reqs EXCEPT ![r] =
                      [q EXCEPT !.pc = "await", !.up[x].remote = "sent",
                                !.up[x].at = now]]
                 /\ UNCHANGED <<remoteStore, tempFiles>>
            ELSE LET res == uploadFile(remoteStore, filePath, put) IN
                 IF ~res.threw
                 THEN /\ remoteStore' = res.store
                      /\ reqs' = [reqs EXCEPT ![r] =
                           [SetUrl([q EXCEPT !.up[x].remote = "ok", !.up[x].at = now],
                                   x, res.url) EXCEPT !.pc = "local"]]
                      /\ tempFiles' = IF q.kind = "update"
                                      THEN Unlink(tempFiles, FileOf(q, x))
                                      ELSE tempFiles
                 ELSE /\ reqs' = [reqs EXCEPT ![r] =
                           [q EXCEPT !.pc = "local", !.up[x].remote = "fail",
                                     !.up[x].at = now]]
                      /\ UNCHANGED <<remoteStore, tempFiles>>
  /\ UNCHANGED <<now, characters, localStore, gallery, ret, server>>

\* bunnyStorage.processAndUploadCharacterImage: transform, key, PUT
RemoteAttempt(r) ==
  LET q == reqs[r]
      x == q.cur
      filePath == BuildKey(q.characterId, x = "background", now)
  IN
  /\ q.pc = "remote"
  /\ IF ~Transform(tempFiles, FileOf(q, x))
     THEN /\ reqs' = [reqs EXCEPT ![r] = [q EXCEPT !.pc = "local", !.up[x].remote = "txfail"]]
          /\ UNCHANGED <<remoteStore, tempFiles>>
     ELSE \E put \in HttpOutcomes :
            IF put = "none"
            THEN /\ reqs' = [reqs EXCEPT ![r] =
                      [q EXCEPT !.pc = "await", !.up[x].remote = "sent",
                                !.up[x].at = now]]
                 /\ UNCHANGED <<remoteStore, tempFiles>>
            ELSE LET res == uploadFile(remoteStore, filePath, put) IN
                 IF ~res.threw
                 THEN /\ remoteStore' = res.store
                      /\ reqs' = [reqs EXCEPT ![r] =
                           Continue(SetUrl([q EXCEPT !.up[x].remote = "ok", !.up[x].at = now],
                                           x, res.url), x)]
                      /\ tempFiles' = IF q.kind = "update"
                                      THEN Unlink(tempFiles, FileOf(q, x))
                                      ELSE tempFiles
                 ELSE /\ reqs' = [reqs EXCEPT ![r] =
                           [q EXCEPT !.pc = "local", !.up[x].remote = "fail",
                                     !.up[x].at = now]]
                      /\ UNCHANGED <<remoteStore, tempFiles>>
  /\ UNCHANGED <<now, characters, localStore, gallery, ret, server>>

\* an inner catch that goes on without the image, whatever its role
UploadFailed_soft(q, x) ==
  IF x = "profile" /\ q.backgroundImage # NoFile
  THEN [q EXCEPT !.pc = "remote", !.cur = "background"]
  ELSE [q EXCEPT !.pc = "save"]

\* an inner catch that ends the request, whatever the role of the image
UploadFailed_hard(q, x) ==
  Respond(q, ErrorBody(500, IF q.kind = "create" THEN "Failed to upload image"
                            ELSE "Failed to upload updated image"))

\* The handler's inner catch: both calls failed.  The profile image ends
\* the request, the background image is skipped.
UploadFailed(q, x) ==
  IF x = "profile"
  THEN Respond(q, ErrorBody(500, IF q.kind = "create" THEN "Failed to upload image"
                                 ELSE "Failed to upload updated image"))
  ELSE Continue(q, x)

\* localStorage.processAndSaveCharacterImage: transform, key, write
LocalAttempt(r) ==
  LET q == reqs[r]
      x == q.cur
      filePath == BuildKey(q.characterId, x = "background", now)
      cleaned == IF q.kind = "update" THEN Unlink(tempFiles, FileOf(q, x)) ELSE tempFiles
  IN
  /\ q.pc = "local"
  /\ IF ~Transform(tempFiles, FileOf(q, x))
     THEN /\ reqs' = [reqs EXCEPT ![r] = UploadFailed([q EXCEPT !.up[x].local = "txfail"], x)]
          /\ UNCHANGED localStore
     ELSE \E write \in {"ok", "error"} :
            IF write = "ok"
            THEN /\ localStore' = localStore \cup {filePath}
                 /\ reqs' = [reqs EXCEPT ![r] =
                      Continue(SetUrl([q EXCEPT !.up[x].local = "ok", !.up[x].at = now],
                                      x, getPublicUrl(filePath)), x)]
            ELSE /\ reqs' = [reqs EXCEPT ![r] =
                      UploadFailed([q EXCEPT !.up[x].local = "fail", !.up[x].at = now], x)]
                 /\ UNCHANGED localStore
  /\ tempFiles' = cleaned
  /\ UNCHANGED <<now, characters, remoteStore, gallery, ret, server>>

\* -------------------------------------------------- persist and respond
\* a collection without the unique index
DuplicateKey_noIndex(docs, oid, id) == FALSE

\* unique: true on CharacterSchema.id: E11000 for an id that is taken
DuplicateKey(docs, oid, id) == \E c \in docs : c.id = id /\ c.oid # oid

\* the _id mongoose gives a new document: one no stored document has
NextOid(docs) == IF docs = {} THEN 1 ELSE 1 + CHOOSE n \in {c.oid : c \in docs} : \A c \in docs : c.oid <= n

\* new Character({...}): schema defaults isActive true, updatedAt Date.now
NewCharacter(q, oid, t) ==
  [oid |-> oid, id |-> q.characterId, name |-> q.name,
   imageUrl |-> q.doc.imageUrl, backgroundImageUrl |-> q.doc.backgroundImageUrl,
   isActive |-> TRUE, updatedAt |-> t]

\* createCharacter from "Delete temporary files after processing" on
CreatePersist(r) ==
  LET q == reqs[r]
      character == NewCharacter(q, NextOid(characters), now)
  IN
  /\ q.pc = "save" /\ q.kind = "create"
  /\ tempFiles' = Unlink(Unlink(tempFiles, q.image), q.backgroundImage)
  /\ IF DuplicateKey(characters, character.oid, character.id)
     THEN /\ reqs' = [reqs EXCEPT ![r] = Respond(q, ErrorBody(500, "Server error"))]
          /\ UNCHANGED characters
     ELSE /\ characters' = characters \cup {character}
          /\ reqs' = [reqs EXCEPT ![r] =
               Respond([q EXCEPT !.doc = character], transformedCharacter(201, character))]
  /\ UNCHANGED <<now, remoteStore, localStore, gallery, ret, server>>

\* a save that leaves the stored imageUrl alone
ApplyModified_skipImage(stored, doc, mod) ==
  [stored EXCEPT
     !.name = IF "name" \in mod THEN doc.name ELSE @,
     !.backgroundImageUrl = IF "backgroundImageUrl" \in mod THEN doc.backgroundImageUrl ELSE @,
     !.id = IF "id" \in mod THEN doc.id ELSE @,
     !.isActive = IF "isActive" \in mod THEN doc.isActive ELSE @,
     !.updatedAt = IF "updatedAt" \in mod THEN doc.updatedAt ELSE @]

\* a save that writes the whole loaded document back
ApplyModified_wholeDocument(stored, doc, mod) == doc

\* document.save() of a loaded document: $set of the modified paths on the
\* stored document with the same _id
ApplyModified(stored, doc, mod) ==
  [stored EXCEPT
     !.name = IF "name" \in mod THEN doc.name ELSE @,
     !.imageUrl = IF "imageUrl" \in mod THEN doc.imageUrl ELSE @,
     !.backgroundImageUrl = IF "backgroundImageUrl" \in mod THEN doc.backgroundImageUrl ELSE @,
     !.id = IF "id" \in mod THEN doc.id ELSE @,
     !.isActive = IF "isActive" \in mod THEN doc.isActive ELSE @,
     !.updatedAt = IF "updatedAt" \in mod THEN doc.updatedAt ELSE @]

SaveDoc(docs, doc, mod) ==
  {IF c.oid = doc.oid THEN ApplyModified(c, doc, mod) ELSE c : c \in docs}

\* save() of a loaded document whose stored document is gone: mongoose
\* rejects with DocumentNotFoundError
DocumentNotFound(docs, doc) == \A c \in docs : c.oid # doc.oid

\* updateCharacter from "Update timestamp" on
UpdateSave(r) ==
  LET q == reqs[r]
      character == [q.doc EXCEPT !.updatedAt = now]
      mod == IF now # q.doc.updatedAt THEN q.mod \cup {"updatedAt"} ELSE q.mod
  IN
  /\ q.pc = "save" /\ q.kind = "update"
  /\ IF DocumentNotFound(characters, character)
     THEN /\ reqs' = [reqs EXCEPT ![r] =
               Respond([q EXCEPT !.doc = character, !.mod = mod],
                       ErrorBody(500, "Server error"))]
          /\ UNCHANGED characters
     ELSE /\ characters' = SaveDoc(characters, character, mod)
          /\ reqs' = [reqs EXCEPT ![r] =
               Respond([q EXCEPT !.doc = character, !.mod = mod],
                       transformedCharacter(200, character))]
  /\ UNCHANGED <<now, remoteStore, localStore, tempFiles, gallery, ret, server>>

\* ------------------------------------------------------- soft deletion
\* res.status(s).json({ message })
MessageBody(s, msg) == ErrorBody(s, msg)

\* the ids a request can name: those of the stored characters and one that
\* no character has
RequestIds == {c.id : c \in characters} \cup {UnknownId}

\* deleteCharacter of the character controller, up to the save
deleteCharacter(r) ==
  /\ Free(r)
  /\ \E id \in RequestIds :
       LET q == [IdleReq EXCEPT !.kind = "delete", !.characterId = id] IN
       reqs' = [reqs EXCEPT ![r] =
         IF FindOne(characters, id) = {}
         THEN Respond(q, ErrorBody(404, "Character not found"))
         ELSE [q EXCEPT !.pc = "save",
                        !.doc = CHOOSE c \in FindOne(characters, id) : TRUE]]
  /\ UNCHANGED <<now, characters, remoteStore, localStore, tempFiles, gallery, ret, server>>

\* a public soft delete that leaves updatedAt alone
SoftDelete_noTimestamp(doc, t) == [doc EXCEPT !.isActive = FALSE]

\* character.isActive = false; character.updatedAt = Date.now()
SoftDelete(doc, t) == [doc EXCEPT !.isActive = FALSE, !.updatedAt = t]

\* the paths of a loaded document that an assignment changed
Modified(loaded, doc) ==
  {f \in {"name", "imageUrl", "backgroundImageUrl", "id", "isActive", "updatedAt"} :
     loaded[f] # doc[f]}

\* deleteCharacter of the character controller, from the assignments on
DeleteSave(r) ==
  LET q == reqs[r]
      character == SoftDelete(q.doc, now)
      mod == Modified(q.doc, character)
  IN
  /\ q.pc = "save" /\ q.kind = "delete"
  /\ characters' = SaveDoc(characters, character, mod)
  /\ reqs' = [reqs EXCEPT ![r] =
       Respond([q EXCEPT !.doc = character, !.mod = mod],
               MessageBody(200, "Character deleted successfully"))]
  /\ UNCHANGED <<now, remoteStore, localStore, tempFiles, gallery, ret, server>>

\* deleteCharacter of the admin controller, up to the save
adminDeleteCharacter(r) ==
  /\ Free(r)
  /\ \E id \in RequestIds :
       LET q == [IdleReq EXCEPT !.kind = "adminDelete", !.characterId = id] IN
       reqs' = [reqs EXCEPT ![r] =
         IF FindOne(characters, id) = {}
         THEN Respond(q, ErrorBody(404, "Character not found"))
         ELSE [q EXCEPT !.pc = "save",
                        !.doc = CHOOSE c \in FindOne(characters, id) : TRUE]]
  /\ UNCHANGED <<now, characters, remoteStore, localStore, tempFiles, gallery, ret, server>>

\* deleteCharacter of the admin controller: character.isActive = false and
\* the save; CharacterSchema has no pre-save hook
AdminDeleteSave(r) ==
  LET q == reqs[r]
      character == [q.doc EXCEPT !.isActive = FALSE]
      mod == Modified(q.doc, character)
  IN
  /\ q.pc = "save" /\ q.kind = "adminDelete"
  /\ characters' = SaveDoc(characters, character, mod)
  /\ reqs' = [reqs EXCEPT ![r] =
       Respond([q EXCEPT !.doc = character, !.mod = mod],
               MessageBody(200, "Character deleted successfully"))]
  /\ UNCHANGED <<now, remoteStore, localStore, tempFiles, gallery, ret, server>>

\* --------------------------------------------------- permanent deletion
\* permanentDeleteCharacter up to the deleteOne
permanentDeleteCharacter(r) ==
  /\ Free(r)
  /\ \E id \in RequestIds :
       LET q == [IdleReq EXCEPT !.kind = "permanentDelete", !.characterId = id] IN
       reqs' = [reqs EXCEPT ![r] =
         IF FindOne(characters, id) = {}
         THEN Respond(q, ErrorBody(404, "Character not found"))
         ELSE [q EXCEPT !.pc = "save",
                        !.doc = CHOOSE c \in FindOne(characters, id) : TRUE]]
  /\ UNCHANGED <<now, characters, remoteStore, localStore, tempFiles, gallery, ret, server>>

\* the keys of the objects a character's URLs name, per backend
ObjectsOf(docs, base) ==
  {c.imageUrl.key : c \in {e \in docs : e.imageUrl.base = base}}
    \cup {c.backgroundImageUrl.key : c \in {e \in docs : e.backgroundImageUrl.base = base}}

\* a permanent delete that removes the character's objects with the record
DeleteOne_withObjects(docs, remote, local, id) ==
  [docs |-> {c \in docs : c.id # id},
   remote |-> remote \ ObjectsOf(FindOne(docs, id), "cdn"),
   local |-> local \ ObjectsOf(FindOne(docs, id), "local")]

\* Character.deleteOne({ id }): the record goes, nothing is asked of the
\* storage services
DeleteOne(docs, remote, local, id) ==
  [docs |-> {c \in docs : c.id # id}, remote |-> remote, local |-> local]

\* permanentDeleteCharacter from the deleteOne on
PermanentDeleteOne(r) ==
  LET q == reqs[r]
      res == DeleteOne(characters, remoteStore, localStore, q.characterId)
  IN
  /\ q.pc = "save" /\ q.kind = "permanentDelete"
  /\ characters' = res.docs
  /\ remoteStore' = res.remote
  /\ localStore' = res.local
  /\ reqs' = [reqs EXCEPT ![r] =
       Respond(q, MessageBody(200, "Character permanently deleted"))]
  /\ UNCHANGED <<now, tempFiles, gallery, ret, server>>

\* ---------------------------------------------------------- the readers
\* one element of a list response: id, name, image.uri, backgroundImage.uri
ListItem(char) == [id |-> char.id, name |-> char.name, image |-> char.imageUrl,
                   backgroundImage |-> char.backgroundImageUrl]

\* a public filter that lets every character through
PublicFilter_all(docs) == docs

\* { isActive: true }
PublicFilter(docs) == {c \in docs : c.isActive}

ListBody(s, chars) == [NoResp EXCEPT !.status = s, !.characters = {ListItem(c) : c \in chars}]

\* getAllCharacters of the character controller
getAllCharacters(r) ==
  /\ Free(r)
  /\ reqs' = [reqs EXCEPT ![r] =
       Respond([IdleReq EXCEPT !.kind = "list"], ListBody(200, PublicFilter(characters)))]
  /\ UNCHANGED <<now, characters, remoteStore, localStore, tempFiles, gallery, ret, server>>

\* getCharacterById of the character controller
getCharacterById(r) ==
  /\ Free(r)
  /\ \E id \in RequestIds :
       LET q == [IdleReq EXCEPT !.kind = "get", !.characterId = id]
           found == FindOne(PublicFilter(characters), id)
       IN
       reqs' = [reqs EXCEPT ![r] =
         IF found = {}
         THEN Respond(q, ErrorBody(404, "Character not found"))
         ELSE Respond(q, ListBody(200, found))]
  /\ UNCHANGED <<now, characters, remoteStore, localStore, tempFiles, gallery, ret, server>>

\* { $sample: { size: 3 } }: the samples the aggregation can draw
SampleSize == 3
Samples(docs) ==
  {S \in SUBSET docs :
     Cardinality(S) = IF Cardinality(docs) < SampleSize THEN Cardinality(docs) ELSE SampleSize}

\* getFeaturedCharacters
getFeaturedCharacters(r) ==
  /\ Free(r)
  /\ \E sample \in Samples(PublicFilter(characters)) :
       reqs' = [reqs EXCEPT ![r] =
         Respond([IdleReq EXCEPT !.kind = "featured"], ListBody(200, sample))]
  /\ UNCHANGED <<now, characters, remoteStore, localStore, tempFiles, gallery, ret, server>>

\* getAllCharacters of the admin controller: Character.find()
adminGetAllCharacters(r) ==
  /\ Free(r)
  /\ reqs' = [reqs EXCEPT ![r] =
       Respond([IdleReq EXCEPT !.kind = "adminList"], ListBody(200, characters))]
  /\ UNCHANGED <<now, characters, remoteStore, localStore, tempFiles, gallery, ret, server>>

\* ------------------------------------------------------------- the chat
\* What req.body.characterId can be: the _id of a stored character or a
\* custom id.
ChatIds ==
  {[oid |-> c.oid, id |-> NoId] : c \in characters}
    \cup {[oid |-> 0, id |-> i] : i \in RequestIds}

\* findCharacterById: by _id first, then by the custom id
findCharacterById(docs, characterId) ==
  LET byOid == {c \in docs : c.oid = characterId.oid} IN
  IF byOid # {} THEN byOid ELSE {c \in docs : c.id = characterId.id}

\* generateFallbackResponse's two tables of fixed messages, each named by
\* its first words
fallbacks(uncensored) ==
  IF uncensored
  THEN <<"Baby, I'm having trouble connecting", "Sweetheart! I miss you so much",
         "Honey, I can't seem to respond", "Omg sorry babe!", "Baby I'm so sorry!">>
  ELSE <<"Sorry sweetheart", "I apologize for the delay", "Oh no", "I'm experiencing",
         "Sorry for the interruption">>

\* fallbacks[Math.floor(Math.random() * fallbacks.length)]
generateFallbackResponse(uncensored, randomIndex) == fallbacks(uncensored)[randomIndex + 1]

\* What openaiService.generateResponse can come to: the text of the first
\* choice, or a throw (the provider answers with an error status, cannot be
\* reached, times out, or answers without a choice).
ProviderOutcomes == {"text", "status", "network", "timeout", "malformed"}

\* A chat handler up to its save.  messageCount is not a path of
\* CharacterSchema: the assignment sets a property of the loaded document
\* only.
ChatRequest(r, kind) ==
  /\ Free(r)
  /\ \E characterId \in ChatIds, message \in {"", "m"}, uncensored \in BOOLEAN :
       LET q == [IdleReq EXCEPT !.kind = kind, !.characterId = characterId.id,
                                !.uncensored = uncensored]
           found == findCharacterById(characters, characterId)
       IN
       reqs' = [reqs EXCEPT ![r] =
         IF message = ""
         THEN Respond(q, ErrorBody(400, "Character ID and message are required"))
         ELSE IF found = {}
         THEN Respond(q, ErrorBody(404, "Character not found"))
         ELSE LET character == CHOOSE c \in found : TRUE IN
              [q EXCEPT !.pc = "chatSave", !.doc = character,
                        !.characterId = character.id,
                        !.messageCount = q.messageCount + 1]]
  /\ UNCHANGED <<now, characters, remoteStore, localStore, tempFiles, gallery, ret, server>>

\* generateCharacterResponse up to the save
generateCharacterResponse(r) == ChatRequest(r, "chat")

\* generatePremiumResponse up to the save
generatePremiumResponse(r) == ChatRequest(r, "premium")

\* await character.save(): no modified path to write; a document that is
\* gone makes it reject, and the outer catch answers 500 with the error's
\* message
ChatSave(r) ==
  LET q == reqs[r] IN
  /\ q.pc = "chatSave"
  /\ IF DocumentNotFound(characters, q.doc)
     THEN /\ reqs' = [reqs EXCEPT ![r] = Respond(q, ErrorBody(500, "No document found"))]
          /\ UNCHANGED characters
     ELSE /\ reqs' = [reqs EXCEPT ![r] = [q EXCEPT !.pc = "provider"]]
          /\ characters' = SaveDoc(characters, q.doc, {})
  /\ UNCHANGED <<now, remoteStore, localStore, tempFiles, gallery, ret, server>>

\* a handler without the inner catch: the provider's error reaches the
\* outer one
ChatAnswer_rethrow(q, outcome, randomIndex) ==
  IF outcome = "text"
  THEN Respond([q EXCEPT !.provider = "ok"], MessageBody(200, "response"))
  ELSE Respond([q EXCEPT !.provider = "failed"], ErrorBody(500, "provider error"))

\* the provider call, its inner catch and res.json: the provider's text or,
\* when the call throws, a fallback message
ChatAnswer(q, outcome, randomIndex) ==
  IF outcome = "text"
  THEN Respond([q EXCEPT !.provider = "ok"], MessageBody(200, "response"))
  ELSE Respond([q EXCEPT !.provider = "failed"],
               MessageBody(200, generateFallbackResponse(q.uncensored, randomIndex)))

\* a chat handler from the provider call on
ProviderReply(r) ==
  LET q == reqs[r] IN
  /\ q.pc = "provider"
  /\ \E outcome \in ProviderOutcomes, randomIndex \in 0 .. (Len(fallbacks(q.uncensored)) - 1) :
       reqs' = [reqs EXCEPT ![r] = ChatAnswer(q, outcome, randomIndex)]
  /\ UNCHANGED <<now, characters, remoteStore, localStore, tempFiles, gallery, ret, server>>

\* ------------------------------------------------------- the galleries
\* A file name is a sequence of characters.  The letters the names of the
\* model are written with:
Lower(ch) ==
  CASE ch = "G" -> "g" [] ch = "J" -> "j" [] ch = "M" -> "m"
    [] ch = "N" -> "n" [] ch = "P" -> "p" [] OTHER -> ch

\* String.prototype.toLowerCase
toLowerCase(str) == [i \in 1 .. Len(str) |-> Lower(str[i])]

\* String.prototype.endsWith
endsWith(str, suffix) ==
  /\ Len(str) >= Len(suffix)
  /\ \A i \in 1 .. Len(suffix) : str[Len(str) - Len(suffix) + i] = suffix[i]

imagePath == <<"c", "a", "r", "a", "s", "o", "u", "l", "s", "/">>
videoPath == <<"v", "i", "d", "e", "o", "s", "/">>

imageExtensions ==
  {<<".", "j", "p", "g">>, <<".", "j", "p", "e", "g">>, <<".", "p", "n", "g">>,
   <<".", "g", "i", "f">>}
videoExtension == <<".", "m", "p", "4">>

\* the names and the listings of the model
ObjectNames ==
  {<<"a", ".", "p", "n", "g">>, <<"b", ".", "P", "N", "G">>, <<"c", ".", "j", "p", "g">>,
   <<"d", ".", "j", "p", "e", "g">>, <<"e", ".", "g", "i", "f">>,
   <<"f", ".", "m", "p", "4">>, <<"g", ".", "M", "P", "4">>, <<"h", ".", "t", "x", "t">>,
   <<"p", "n", "g">>}
ListingEntries == [ObjectName : ObjectNames, IsDirectory : BOOLEAN]
Listings == UNION {[1 .. n -> ListingEntries] : n \in 0 .. MaxFiles}

\* an image filter that lets the directories through
IsImage_withDirectories(file) ==
  \E ext \in imageExtensions : endsWith(toLowerCase(file.ObjectName), ext)

\* the filter of listImages
IsImage(file) ==
  /\ file.IsDirectory = FALSE
  /\ \E ext \in imageExtensions : endsWith(toLowerCase(file.ObjectName), ext)

\* the filter of listVideos
IsVideo(file) ==
  /\ file.IsDirectory = FALSE
  /\ endsWith(file.ObjectName, videoExtension)

\* .map(file => getCdnUrl(`${path}${file.ObjectName}`)) on the filtered files
CdnUrls(kept, path) == [i \in 1 .. Len(kept) |-> getCdnUrl(path \o kept[i].ObjectName)]

\* a call that settles
Settled == HttpOutcomes \ {"none"}

\* the record of a call; n tells two calls in a row apart
Call(fn, arg, outcome, threw) ==
  [NoRet EXCEPT !.fn = fn, !.n = 1 - ret.n, !.arg = arg, !.outcome = outcome,
                !.threw = threw]

\* listImages of the carousel controller
listImages ==
  /\ \E http \in Settled :
       LET data == listFiles(gallery, http) IN
       ret' = IF data.threw
              THEN Call("listImages", NoKey, http, TRUE)
              ELSE [Call("listImages", NoKey, http, FALSE) EXCEPT
                      !.list = CdnUrls(SelectSeq(data.list, IsImage), imagePath)]
  /\ UNCHANGED <<now, reqs, characters, remoteStore, localStore, tempFiles, gallery, server>>

\* listVideos of the media controller
listVideos ==
  /\ \E http \in Settled :
       LET data == listFiles(gallery, http) IN
       ret' = IF data.threw
              THEN Call("listVideos", NoKey, http, TRUE)
              ELSE [Call("listVideos", NoKey, http, FALSE) EXCEPT
                      !.list = CdnUrls(SelectSeq(data.list, IsVideo), videoPath)]
  /\ UNCHANGED <<now, reqs, characters, remoteStore, localStore, tempFiles, gallery, server>>

\* ------------------------------------------- calls of the storage services
\* the keys the calls are made with: those of one character
StorageKeys == {BuildKey(LegacyId, isBackground, t) : isBackground \in BOOLEAN, t \in Times}
LocalKeys == {BuildKey(LegacyId, FALSE, t) : t \in Times}
Folders == {FolderOf(BuildKey(id, FALSE, 0)) : id \in {LegacyId, UnknownId}}

\* bunnyStorageService.uploadFile(fileBuffer, filePath, contentType)
CallUploadFile ==
  /\ \E filePath \in StorageKeys, put \in HttpOutcomes :
       IF put = "none"
       THEN /\ ret' = Call("uploadFile", filePath, put, FALSE)
            /\ UNCHANGED remoteStore
       ELSE LET res == uploadFile(remoteStore, filePath, put) IN
            /\ remoteStore' = res.store
            /\ ret' = [Call("uploadFile", filePath, put, res.threw) EXCEPT
                         !.url = res.url, !.ok = ~res.threw]
  /\ UNCHANGED <<now, reqs, characters, localStore, tempFiles, gallery, server>>

\* bunnyStorageService.listFiles(path)
CallListFiles ==
  /\ \E path \in Folders, http \in Settled :
       LET data == listFiles(Entries(remoteStore, path), http) IN
       ret' = [Call("listFiles", path, http, data.threw) EXCEPT
                 !.list = data.list, !.ok = ~data.threw]
  /\ UNCHANGED <<now, reqs, characters, remoteStore, localStore, tempFiles, gallery, server>>

\* bunnyStorageService.deleteFile(filePath)
CallDeleteFile ==
  /\ \E filePath \in StorageKeys, http \in Settled :
       LET res == bunnyDeleteFile(remoteStore, filePath, http) IN
       /\ remoteStore' = res.store
       /\ ret' = [Call("deleteFile", filePath, http, res.threw) EXCEPT !.ok = res.ok]
  /\ UNCHANGED <<now, reqs, characters, localStore, tempFiles, gallery, server>>

\* saveFile(fileBuffer, filePath) of the local service
saveFile(store, filePath, write) ==
  IF write = "ok"
  THEN [store |-> store \cup {filePath}, threw |-> FALSE, url |-> getPublicUrl(filePath)]
  ELSE [store |-> store, threw |-> TRUE, url |-> NoUrl]

\* localStorageService.saveFile(fileBuffer, filePath)
CallSaveFile ==
  /\ \E filePath \in LocalKeys, write \in {"ok", "error"} :
       LET res == saveFile(localStore, filePath, write) IN
       /\ localStore' = res.store
       /\ ret' = [Call("saveFile", filePath, write, res.threw) EXCEPT
                    !.url = res.url, !.ok = ~res.threw]
  /\ UNCHANGED <<now, reqs, characters, remoteStore, tempFiles, gallery, server>>

\* a local delete that removes without looking: ENOENT for a missing file
localDeleteFile_noExistsCheck(store, filePath, unlink) ==
  IF filePath \in store /\ unlink = "ok"
  THEN [store |-> store \ {filePath}, threw |-> FALSE, ok |-> TRUE, branch |-> "unlinked"]
  ELSE [store |-> store, threw |-> TRUE, ok |-> FALSE, branch |-> "error"]

\* deleteFile(filePath) of the local service: existsSync, then unlinkSync
localDeleteFile(store, filePath, unlink) ==
  IF filePath \notin store
  THEN [store |-> store, threw |-> FALSE, ok |-> TRUE, branch |-> "absent"]
  ELSE IF unlink = "ok"
  THEN [store |-> store \ {filePath}, threw |-> FALSE, ok |-> TRUE, branch |-> "unlinked"]
  ELSE [store |-> store, threw |-> TRUE, ok |-> FALSE, branch |-> "error"]

\* localStorageService.deleteFile(filePath)
CallLocalDeleteFile ==
  /\ \E filePath \in LocalKeys, unlink \in {"ok", "error"} :
       LET res == localDeleteFile(localStore, filePath, unlink) IN
       /\ localStore' = res.store
       /\ ret' = [Call("localDeleteFile", filePath, res.branch, res.threw) EXCEPT
                    !.ok = res.ok]
  /\ UNCHANGED <<now, reqs, characters, remoteStore, tempFiles, gallery, server>>

\* ------------------------------------------------- the image transform
\* The sizes of the source images and the boxes of the model: the values
\* around the multiples of the profile side, and a few pixels.
Dims == {d \in 1 .. MaxDim : d <= 3 \/ d % 400 \in {0, 1, 399}}
OptionValues == {0, 400, 1200}
ProfileSide == 400
BackgroundWidth == 1200
BackgroundHeight == 800

Max(a, b) == IF a >= b THEN a ELSE b
Min(a, b) == IF a <= b THEN a ELSE b

\* a / b rounded to the nearest integer
Round(a, b) == (2 * a + b) \div (2 * b)

\* options.width || 1200: a width that is absent (or 0) gives the default
Default(v, d) == IF v = 0 THEN d ELSE v

\* sharp's resize({ width, height, fit, withoutEnlargement }) of an image.
\* The shrink factor is num / den: that of the axis that shrinks less for
\* 'cover' and more for 'inside', not below 1 with withoutEnlargement, and
\* no axis is sent to 0.  'cover' then crops to the box.
resize(image, width, height, fit, withoutEnlargement) ==
  LET w == image.width
      h == image.height
      horizontal == IF fit = "cover" THEN w * height < h * width
                    ELSE w * height > h * width
      num == IF horizontal THEN w ELSE h
      den == IF horizontal THEN width ELSE height
      keep == withoutEnlargement /\ num < den
      n == IF keep THEN 1 ELSE num
      d == IF keep THEN 1 ELSE den
      rw == Max(1, Round(w * d, n))
      rh == Max(1, Round(h * d, n))
  IN IF fit = "cover"
     THEN [width |-> Min(rw, width), height |-> Min(rh, height)]
     ELSE [width |-> rw, height |-> rh]

\* a background transform that may enlarge
transformImage_enlarging(image, isBackground, options) ==
  IF isBackground
  THEN resize(image, Default(options.width, BackgroundWidth),
              Default(options.height, BackgroundHeight), "inside", FALSE)
  ELSE resize(image, Default(options.width, ProfileSide),
              Default(options.height, ProfileSide), "cover", FALSE)

\* a profile transform that fits inside the box as the background one does
transformImage_profileInside(image, isBackground, options) ==
  IF isBackground
  THEN resize(image, Default(options.width, BackgroundWidth),
              Default(options.height, BackgroundHeight), "inside", TRUE)
  ELSE resize(image, Default(options.width, ProfileSide),
              Default(options.height, ProfileSide), "inside", FALSE)

\* "Apply image processing based on image type", the same lines in
\* processAndUploadCharacterImage and processAndSaveCharacterImage
transformImage(image, isBackground, options) ==
  IF isBackground
  THEN resize(image, Default(options.width, BackgroundWidth),
              Default(options.height, BackgroundHeight), "inside", TRUE)
  ELSE resize(image, Default(options.width, ProfileSide),
              Default(options.height, ProfileSide), "cover", FALSE)

\* the transform of processAndUploadCharacterImage on the drawn image
UploadTransform ==
  /\ \E isBackground \in BOOLEAN :
       ret' = [ret EXCEPT !.fn = IF isBackground THEN "uploadBackground" ELSE "uploadProfile",
                          !.n = 1 - @,
                          !.info = transformImage(ret.image, isBackground, ret.options)]
  /\ UNCHANGED <<now, reqs, characters, remoteStore, localStore, tempFiles, gallery, server>>

\* the transform of processAndSaveCharacterImage on the drawn image
SaveTransform ==
  /\ \E isBackground \in BOOLEAN :
       ret' = [ret EXCEPT !.fn = IF isBackground THEN "saveBackground" ELSE "saveProfile",
                          !.n = 1 - @,
                          !.info = transformImage(ret.image, isBackground, ret.options)]
  /\ UNCHANGED <<now, reqs, characters, remoteStore, localStore, tempFiles, gallery, server>>

\* ------------------------------------------------------------ server.js
\* server: readyState of the mongoose connection, the mongoose.connect
\* promises of connectWithRetry that are pending (connects), the pending
\* setTimeout(connectWithRetry, 5000) timers, the servers app.listen has
\* returned (listens), their pending 'error' events (errors), why the
\* process has exited ("" while it runs) and the connection losses so far.
Started == [readyState |-> "disconnected", connects |-> 1, timers |-> 0, listens |-> 0,
            errors |-> 0, exit |-> "", disconnects |-> 0]

Others == <<now, reqs, characters, remoteStore, localStore, tempFiles, gallery, ret>>

\* The .then of mongoose.connect in connectWithRetry: without a database
\* retry in 5 s, otherwise app.listen(PORT); a second listener cannot bind
\* the port the first one holds and gets 'error' EADDRINUSE.
ConnectThen(s, db) ==
  IF ~db
  THEN [s EXCEPT !.readyState = "connected", !.connects = @ - 1, !.timers = @ + 1]
  ELSE [s EXCEPT !.readyState = "connected", !.connects = @ - 1,
                 !.listens = @ + 1,
                 !.errors = IF s.listens >= 1 THEN @ + 1 ELSE @]

\* mongoose.connect resolves (at once on a connection that is open)
ConnectResolves ==
  /\ server.exit = "" /\ server.connects > 0
  /\ \E db \in BOOLEAN : server' = ConnectThen(server, db)
  /\ UNCHANGED Others

\* mongoose.connect rejects: the .catch retries in 5 s
ConnectRejects ==
  /\ server.exit = "" /\ server.connects > 0 /\ server.readyState = "disconnected"
  /\ server' = [server EXCEPT !.connects = @ - 1, !.timers = @ + 1]
  /\ UNCHANGED Others

\* mongoose.connection.on('disconnected'), the process not shutting down
Disconnected ==
  /\ server.exit = "" /\ server.readyState = "connected"
  /\ server.disconnects < MaxDisconnects
  /\ server' = [server EXCEPT !.readyState = "disconnected", !.timers = @ + 1,
                              !.disconnects = @ + 1]
  /\ UNCHANGED Others

\* the driver re-establishes a connection that was lost: 'connected' logs
Reconnected ==
  /\ server.exit = "" /\ server.readyState = "disconnected" /\ server.disconnects > 0
  /\ server' = [server EXCEPT !.readyState = "connected"]
  /\ UNCHANGED Others

\* a setTimeout(connectWithRetry, 5000) fires: mongoose.connect is called
TimerFires ==
  /\ server.exit = "" /\ server.timers > 0
  /\ server' = [server EXCEPT !.timers = @ - 1, !.connects = @ + 1]
  /\ UNCHANGED Others

\* server.on('error'): process.exit(1)
ListenError ==
  /\ server.exit = "" /\ server.errors > 0
  /\ server' = [server EXCEPT !.errors = @ - 1, !.exit = "EADDRINUSE"]
  /\ UNCHANGED Others

\* SIGINT / SIGTERM: the connection is closed and the process exits
Shutdown ==
  /\ server.exit = ""
  /\ server' = [server EXCEPT !.readyState = "disconnected", !.exit = "signal"]
  /\ UNCHANGED Others

\* ------------------------------------------------- scripts/convert-ids.js
\* the body of the loop for one character with a UUID id
ConvertOne(character, newId) ==
  [character EXCEPT
     !.imageUrl = IF @ # NoUrl THEN ReplaceId(@, character.id, newId) ELSE @,
     !.backgroundImageUrl = IF @ # NoUrl THEN ReplaceId(@, character.id, newId) ELSE @,
     !.id = newId]

ConvertIds ==
  \E character \in characters, randomNum \in Rands :
    LET converted == ConvertOne(character, generateShortId(randomNum, now)) IN
    /\ IsUuid(character.id)
    /\ ~DuplicateKey(characters, converted.oid, converted.id)
    /\ characters' = SaveDoc(characters, converted, {"id", "imageUrl", "backgroundImageUrl"})
    /\ UNCHANGED <<now, reqs, remoteStore, localStore, tempFiles, gallery, ret, server>>

\* ------------------------------------------------------------------ spec
\* the server
Next ==
  \/ Tick
  \/ \E r \in Reqs : updateCharacter(r)
  \/ \E r \in Reqs : createCharacter(r)
  \/ \E r \in Reqs : RemoteAttempt(r)
  \/ \E r \in Reqs : LocalAttempt(r)
  \/ \E r \in Reqs : CreatePersist(r)
  \/ \E r \in Reqs : UpdateSave(r)
  \/ \E r \in Reqs : deleteCharacter(r)
  \/ \E r \in Reqs : DeleteSave(r)
  \/ \E r \in Reqs : adminDeleteCharacter(r)
  \/ \E r \in Reqs : AdminDeleteSave(r)
  \/ \E r \in Reqs : getAllCharacters(r)
  \/ \E r \in Reqs : getCharacterById(r)
  \/ \E r \in Reqs : getFeaturedCharacters(r)
  \/ \E r \in Reqs : adminGetAllCharacters(r)
  \/ \E r \in Reqs : generateCharacterResponse(r)
  \/ \E r \in Reqs : ChatSave(r)
  \/ \E r \in Reqs : ProviderReply(r)

Spec == Init /\ [][Next]_vars

\* the server, and convert-ids.js run against its database
NextMigration ==
  \/ Next
  \/ ConvertIds

SpecMigration == Init /\ [][NextMigration]_vars

\* creates and id conversions only
NextIds ==
  \/ Tick
  \/ \E r \in Reqs : createCharacter(r)
  \/ \E r \in Reqs : RemoteAttempt(r)
  \/ \E r \in Reqs : LocalAttempt(r)
  \/ \E r \in Reqs : CreatePersist(r)
  \/ ConvertIds

SpecIds == Init /\ [][NextIds]_vars

\* The server, every handler that has started going on to its next step:
\* the event loop runs each continuation whose promise has settled.
Fairness ==
  \A r \in Reqs :
    /\ WF_vars(RemoteAttempt(r)) /\ WF_vars(LocalAttempt(r))
    /\ WF_vars(CreatePersist(r)) /\ WF_vars(UpdateSave(r))
    /\ WF_vars(DeleteSave(r)) /\ WF_vars(AdminDeleteSave(r))
    /\ WF_vars(ChatSave(r)) /\ WF_vars(ProviderReply(r))

SpecFair == Spec /\ Fairness

\* creates, updates and permanent deletions
NextPurge ==
  \/ Tick
  \/ \E r \in Reqs : createCharacter(r)
  \/ \E r \in Reqs : updateCharacter(r)
  \/ \E r \in Reqs : RemoteAttempt(r)
  \/ \E r \in Reqs : LocalAttempt(r)
  \/ \E r \in Reqs : CreatePersist(r)
  \/ \E r \in Reqs : UpdateSave(r)
  \/ \E r \in Reqs : permanentDeleteCharacter(r)
  \/ \E r \in Reqs : PermanentDeleteOne(r)

SpecPurge == Init /\ [][NextPurge]_vars

\* the chat handlers and permanent deletions
NextChat ==
  \/ \E r \in Reqs : generateCharacterResponse(r)
  \/ \E r \in Reqs : generatePremiumResponse(r)
  \/ \E r \in Reqs : ChatSave(r)
  \/ \E r \in Reqs : ProviderReply(r)
  \/ \E r \in Reqs : permanentDeleteCharacter(r)
  \/ \E r \in Reqs : PermanentDeleteOne(r)

SpecChat == Init /\ [][NextChat]_vars

\* the gallery handlers, for every listing the storage can answer with
InitGallery ==
  /\ InitServer
  /\ gallery \in Listings
  /\ ret = NoRet
  /\ server = Listening

NextGallery ==
  \/ listImages
  \/ listVideos

SpecGallery == InitGallery /\ [][NextGallery]_vars

\* the storage services, called in any order
NextStorage ==
  \/ CallUploadFile
  \/ CallListFiles
  \/ CallDeleteFile
  \/ CallSaveFile
  \/ CallLocalDeleteFile

SpecStorage == Init /\ [][NextStorage]_vars

\* the image transforms, for every source image and requested box
InitImage ==
  /\ InitServer
  /\ gallery = << >>
  /\ \E w \in Dims, h \in Dims, W \in OptionValues, H \in OptionValues :
       ret = [NoRet EXCEPT !.image = [width |-> w, height |-> h],
                           !.options = [width |-> W, height |-> H]]
  /\ server = Listening

NextImage ==
  \/ UploadTransform
  \/ SaveTransform

SpecImage == InitImage /\ [][NextImage]_vars

\* the process of server.js from its start
InitProcess ==
  /\ InitServer
  /\ gallery = << >>
  /\ ret = NoRet
  /\ server = Started

NextProcess ==
  \/ ConnectResolves
  \/ ConnectRejects
  \/ Disconnected
  \/ Reconnected
  \/ TimerFires
  \/ ListenError
  \/ Shutdown

SpecProcess == InitProcess /\ [][NextProcess]_vars

TypeOK ==
  /\ now \in Times
  /\ \A r \in Reqs : reqs[r].pc \in {"idle", "remote", "await", "local", "save",
                                     "chatSave", "provider", "done"}
  /\ \A p \in Paths : tempFiles[p] \in {"absent", "valid", "invalid"}

\* ======================================================== properties
UrlOf(q, x) == IF x = "background" THEN q.doc.backgroundImageUrl ELSE q.doc.imageUrl
FieldOf(c, x) == IF x = "background" THEN c.backgroundImageUrl ELSE c.imageUrl

Processed(q, x) == q.up[x].remote # "none"
RemoteFailed(q, x) == q.up[x].remote \in {"fail", "txfail"}
LocalSaved(q, x) == q.up[x].local = "ok"
BothFailed(q, x) == RemoteFailed(q, x) /\ q.up[x].local \in {"fail", "txfail"}
Stored(q, x) == q.up[x].remote = "ok" \/ q.up[x].local = "ok"
Succeeded(q) == q.pc = "done" /\ q.resp.status \in {200, 201}
RespUrl(q, x) == IF x = "background" THEN q.resp.backgroundImage ELSE q.resp.image

\* the step in which request r answers
Answers(r) == reqs[r].pc # "done" /\ reqs'[r].pc = "done"

\* C1: when the Bunny call of an upload failed and the local save
\* succeeded, the upload yields the local URL of the key it wrote, the
\* local backend holds that key, the request is not ended by that upload,
\* and a request that answers with success returns that URL and has
\* written it to the character's record.
C1_LocalUrl(q, x) ==
  /\ UrlOf(q, x) = [base |-> "local",
                    key |-> [owner |-> q.characterId, role |-> x, ts |-> q.up[x].at]]
  /\ UrlOf(q, x).key \in localStore

C2_TempFileDeleted ==
  \A r \in Reqs, x \in Roles :
    reqs[r].pc = "done" /\ Processed(reqs[r], x) =>
      \/ tempFiles[FileOf(reqs[r], x)] = "absent"
      \/ \E o \in Reqs \ {r}, y \in Roles :
            reqs[o].pc \notin {"idle", "done"} /\ FileOf(reqs[o], y) = FileOf(reqs[r], x)

\* C3: a createCharacter whose profile image is stored by neither backend
\* answers with an error, and a createCharacter changes the Character
\* collection in no step but the one in which it answers 201.
C3_NothingPersisted ==
  /\ [](\A r \in Reqs :
          reqs[r].kind = "create" /\ BothFailed(reqs[r], "profile") =>
            reqs[r].pc = "done" /\ reqs[r].resp = ErrorBody(500, "Failed to upload image"))
  /\ [][\A r \in Reqs :
          reqs'[r] # reqs[r] /\ reqs'[r].kind = "create" /\ ~Succeeded(reqs'[r]) =>
            characters' = characters]_vars

C3_Witness ==
  \E r \in Reqs :
    /\ reqs[r].kind = "create" /\ reqs[r].pc = "done"
    /\ BothFailed(reqs[r], "profile")
    /\ reqs[r].resp.status = 500

\* C4 as stated: a createCharacter whose profile image is stored and
\* whose background image is stored by neither backend succeeds, and the
\* persisted Character has backgroundImageUrl null, imageUrl set and
\* isActive true.
C4_Case(q) ==
  q.kind = "create" /\ q.pc = "done" /\ Stored(q, "profile") /\ BothFailed(q, "background")

C4_Persisted(q, docs) ==
  \E c \in docs :
    /\ c.oid = q.doc.oid /\ c.id = q.characterId
    /\ c.backgroundImageUrl = NoUrl
    /\ c.imageUrl = UrlOf(q, "profile") /\ c.imageUrl # NoUrl
    /\ c.isActive

C5_Invalid(q) ==
  q.kind = "create" /\ (q.name = "" \/ q.description = "" \/ q.personality = ""
                          \/ q.image = NoFile)

C5_RejectedBeforeStorage ==
  /\ [](\A r \in Reqs :
          C5_Invalid(reqs[r]) =>
            /\ reqs[r].pc = "done" /\ reqs[r].resp.status = 400
            /\ \A x \in Roles : reqs[r].up[x] = NoUpload)
  /\ [][\A r \in Reqs :
          Answers(r) /\ reqs'[r].resp.status = 400 =>
            remoteStore' = remoteStore /\ localStore' = localStore]_vars

C5_Witness ==
  \E r \in Reqs :
    /\ reqs[r].kind = "create" /\ reqs[r].resp.status = 400
    /\ reqs[r].image = NoFile /\ reqs[r].name # "" /\ reqs[r].backgroundImage # NoFile

\* C6: the imageUrl of every persisted Character is the URL, in the
\* backend the URL names, of an object that backend holds.
Resolves(url) ==
  \/ url.base = "cdn" /\ url.key \in remoteStore
  \/ url.base = "local" /\ url.key \in localStore

C6_ImageUrlResolves == \A c \in characters : Resolves(c.imageUrl)

\* C7: when both storage attempts of the profile image failed, the answer
\* is a failure that carries the remote and the local cause.
C7_BothCauses ==
  \A r \in Reqs :
    reqs[r].pc = "done" /\ BothFailed(reqs[r], "profile") =>
      reqs[r].resp.status >= 400 /\ reqs[r].resp.causes = {"remote", "local"}

\* C8: after a failed transform the local fallback is not entered and no
\* local save is made for that upload.
C8_TransformTerminal ==
  \A r \in Reqs, x \in Roles :
    reqs[r].up[x].remote = "txfail" =>
      reqs[r].up[x].local = "none" /\ ~(reqs[r].pc = "local" /\ reqs[r].cur = x)

\* C9 as stated: no two uploads are stored under the same key.
Uploads == Reqs \X Roles
StoredKey(u) == UrlOf(reqs[u[1]], u[2]).key

C9_KeysUnique_Original ==
  \A u, v \in Uploads :
    u # v /\ Stored(reqs[u[1]], u[2]) /\ Stored(reqs[v[1]], v[2]) =>
      StoredKey(u) # StoredKey(v)

\* C9, amended: two uploads are stored under different keys whenever they
\* differ in owner, in role or in the millisecond their key was built at
\* (two uploads of one role for one owner in one millisecond share a key).
C9_KeysUnique ==
  \A u, v \in Uploads :
    /\ u # v /\ Stored(reqs[u[1]], u[2]) /\ Stored(reqs[v[1]], v[2])
    /\ \/ reqs[u[1]].characterId # reqs[v[1]].characterId
       \/ u[2] # v[2]
       \/ reqs[u[1]].up[u[2]].at # reqs[v[1]].up[v[2]].at
    => StoredKey(u) # StoredKey(v)

C9_Witness ==
  \E u, v \in Uploads :
    /\ u[1] # v[1] /\ u[2] = v[2]
    /\ Stored(reqs[u[1]], u[2]) /\ Stored(reqs[v[1]], v[2])
    /\ reqs[u[1]].characterId = reqs[v[1]].characterId
    /\ reqs[u[1]].up[u[2]].at # reqs[v[1]].up[v[2]].at
    /\ StoredKey(u) # StoredKey(v)

\* C10 as stated: when the second of two successful updateCharacter
\* requests that replace the profile image of one character commits, the
\* record's imageUrl is that request's URL and no record refers to the
\* other request's URL.
C10_Race(a, b) ==
  /\ a.kind = "update" /\ b.kind = "update"
  /\ Succeeded(a) /\ Succeeded(b)
  /\ a.doc.oid = b.doc.oid
  /\ Stored(a, "profile") /\ Stored(b, "profile")

Refers(c, url) == c.imageUrl = url \/ c.backgroundImageUrl = url

C10_LastWriteWins_Original ==
  [][\A r, o \in Reqs :
       r # o /\ Answers(r) /\ C10_Race(reqs'[r], reqs'[o]) =>
         /\ \E c \in characters' :
               c.oid = reqs'[r].doc.oid /\ c.imageUrl = UrlOf(reqs'[r], "profile")
         /\ \A c \in characters' : ~Refers(c, UrlOf(reqs'[o], "profile"))]_vars

\* C10, amended: the record's imageUrl is the URL of the request that
\* committed last, and no record refers to the other request's URL unless
\* the two requests stored under the same key in the same backend (same
\* role, owner and millisecond), the two URLs then being one.
C10_LastWriteWins ==
  [][\A r, o \in Reqs :
       r # o /\ Answers(r) /\ C10_Race(reqs'[r], reqs'[o]) =>
         /\ \E c \in characters' :
               c.oid = reqs'[r].doc.oid /\ c.imageUrl = UrlOf(reqs'[r], "profile")
         /\ UrlOf(reqs'[o], "profile") # UrlOf(reqs'[r], "profile") =>
              \A c \in characters' : ~Refers(c, UrlOf(reqs'[o], "profile"))]_vars

\* both have answered; the one whose URL the record shows had loaded the
\* document before the other one committed its new name
C10_Witness ==
  \E r, o \in Reqs :
    /\ r # o /\ C10_Race(reqs[r], reqs[o])
    /\ UrlOf(reqs[o], "profile") # UrlOf(reqs[r], "profile")
    /\ \E c \in characters :
          /\ c.oid = reqs[r].doc.oid /\ c.imageUrl = UrlOf(reqs[r], "profile")
          /\ c.name = reqs[o].doc.name /\ c.name # reqs[r].doc.name

\* C11: a public list, get-by-id or featured response holds no character
\* that is inactive in the collection when the response is made (a
\* get-by-id for its id answers 404), the admin listing made then holds
\* every stored character, inactive ones included, and a soft delete that
\* answers 200 leaves the record stored, inactive.
PublicReads == {"list", "get", "featured"}
Inactive(docs) == {c \in docs : ~c.isActive}

C11_InactiveHidden ==
  /\ [][\A r \in Reqs :
          Answers(r) /\ reqs'[r].kind \in PublicReads =>
            /\ \A c \in Inactive(characters), item \in reqs'[r].resp.characters :
                  item.id # c.id
            /\ reqs'[r].kind = "get"
                 /\ (\E c \in Inactive(characters) : c.id = reqs'[r].characterId)
                 => reqs'[r].resp.status = 404]_vars
  /\ [][\A r \in Reqs :
          Answers(r) /\ reqs'[r].kind = "adminList" =>
            \A c \in characters : ListItem(c) \in reqs'[r].resp.characters]_vars
  /\ [][\A r \in Reqs :
          Answers(r) /\ reqs'[r].kind \in {"delete", "adminDelete"}
            /\ reqs'[r].resp.status = 200 =>
              /\ {c.oid : c \in characters'} = {c.oid : c \in characters}
              /\ \E c \in Inactive(characters') : c.oid = reqs'[r].doc.oid]_vars

\* a soft delete has answered, then a public get-by-id for that character
\* answered 404 while its record is stored
C11_Witness ==
  \E r, o \in Reqs :
    /\ reqs[r].kind \in {"delete", "adminDelete"} /\ reqs[r].resp.status = 200
    /\ reqs[o].kind = "get" /\ reqs[o].resp.status = 404
    /\ reqs[o].characterId = reqs[r].characterId
    /\ \E c \in Inactive(characters) : c.id = reqs[o].characterId

\* C12: in every step that changes a stored Character record, the record's
\* updatedAt becomes the time of the step.
C12_UpdatedAtRefreshed ==
  [][\A c \in characters, d \in characters' :
       c.oid = d.oid /\ c # d => d.updatedAt = now]_vars

\* The URLs of a gallery answer are those of the entries of the listing
\* that Wanted accepts, each once, in the order of the listing: there is an
\* increasing map from the positions of the answer onto the positions of
\* the accepted entries.
SameLetters(name, ext) ==
  /\ Len(name) >= Len(ext)
  /\ \A i \in 1 .. Len(ext) : Lower(name[Len(name) - Len(ext) + i]) = ext[i]

AnswerOf(urls, entries, path, Wanted(_)) ==
  \E f \in [DOMAIN urls -> DOMAIN entries] :
    /\ \A i, j \in DOMAIN urls : i < j => f[i] < f[j]
    /\ {f[i] : i \in DOMAIN urls} = {j \in DOMAIN entries : Wanted(entries[j])}
    /\ \A i \in DOMAIN urls :
         urls[i] = [base |-> "cdn", key |-> path \o entries[f[i]].ObjectName]

WantedImage(e) ==
  ~e.IsDirectory /\ \E ext \in imageExtensions : SameLetters(e.ObjectName, ext)
WantedVideo(e) == ~e.IsDirectory /\ SameLetters(e.ObjectName, videoExtension)

\* C13: the carousel listing answers with exactly the CDN URLs of the
\* entries that are not directories and whose name ends (whatever the case
\* of its letters) in .jpg, .jpeg, .png or .gif, in the order of the
\* backend's listing.
C13_CarouselListing ==
  ret.fn = "listImages" /\ ~ret.threw => AnswerOf(ret.list, gallery, imagePath, WantedImage)

\* two images are listed after one another and a directory or another
\* file is not
C13_Witness ==
  /\ ret.fn = "listImages" /\ ~ret.threw
  /\ Len(gallery) = 2 /\ Len(ret.list) = 2
  /\ ret.list[1] # ret.list[2]
  /\ gallery[1].ObjectName = <<"b", ".", "P", "N", "G">>

\* C14: for the videos and the carousel listing alike, an entry is in the
\* answer if and only if it is not a directory and its lower-cased name
\* ends with an accepted extension.
C14_CaseInsensitive ==
  /\ ret.fn = "listImages" /\ ~ret.threw =>
       AnswerOf(ret.list, gallery, imagePath, WantedImage)
  /\ ret.fn = "listVideos" /\ ~ret.threw =>
       AnswerOf(ret.list, gallery, videoPath, WantedVideo)

\* the step of a call of a storage service
Called(fn) == ret'.fn = fn /\ ret'.n # ret.n

\* C15: when uploadFile has returned the URL u for a key and the folder of
\* that key is listed next, one of the entries, mapped to the CDN URL of
\* folder + object name, is u.
C15_RoundTrip ==
  [][ret.fn = "uploadFile" /\ ret.ok /\ Called("listFiles") /\ ret'.ok
       /\ ret'.arg = FolderOf(ret.arg) =>
         \E i \in DOMAIN ret'.list :
           [base |-> "cdn", key |-> Join(ret'.arg, ret'.list[i].ObjectName)] = ret.url]_vars

\* a listing of a folder that holds two uploaded objects
C15_Witness ==
  /\ ret.fn = "listFiles" /\ ret.ok
  /\ \E i, j \in DOMAIN ret.list :
       /\ i # j
       /\ Join(ret.arg, ret.list[i].ObjectName) \in StorageKeys
       /\ Join(ret.arg, ret.list[j].ObjectName) \in StorageKeys

\* C16: uploadFile returns a URL only when the PUT completed with 2xx, the
\* URL being the CDN URL of the key, which the zone then holds; on a network
\* error, another status or a timeout it throws, returns no URL and leaves
\* the zone as it was.
C16_UploadFailsLoudly ==
  /\ [](ret.fn = "uploadFile" =>
          /\ ret.url # NoUrl =>
               /\ ret.outcome = "2xx" /\ ~ret.threw
               /\ ret.url = [base |-> "cdn", key |-> ret.arg]
               /\ ret.arg \in remoteStore
          /\ ret.outcome \in {"non2xx", "network", "timeout"} =>
               ret.threw /\ ret.url = NoUrl
          /\ ret.outcome = "2xx" => ret.url # NoUrl)
  /\ [][Called("uploadFile") /\ ret'.outcome # "2xx" => remoteStore' = remoteStore]_vars

C16_Witness ==
  /\ ret.fn = "uploadFile" /\ ret.outcome = "timeout" /\ ret.threw
  /\ ret.arg \notin remoteStore

\* C18: the local deleteFile called for a key whose file is absent returns
\* true, throws nothing and leaves the local store as it was; after a
\* delete that returned true the file is absent.
C18_LocalDeleteIdempotent ==
  /\ [][Called("localDeleteFile") /\ ret'.arg \notin localStore =>
          ret'.ok /\ ~ret'.threw /\ localStore' = localStore]_vars
  /\ [](ret.fn = "localDeleteFile" /\ ret.ok => ret.arg \notin localStore)

\* a delete of a file that was not there, other files being there
C18_Witness ==
  /\ ret.fn = "localDeleteFile" /\ ret.outcome = "absent" /\ ret.ok
  /\ localStore # {}

\* C19: the Bunny deleteFile called for a key the zone does not hold, the
\* zone being reachable, succeeds.
C19_RemoteDeleteIdempotent ==
  [][Called("deleteFile") /\ ret'.arg \notin remoteStore /\ ret'.outcome = "2xx" =>
       ret'.ok /\ ~ret'.threw]_vars

\* C17: an upload whose PUT gets no response is in the end counted as a
\* remote failure and its local fallback is attempted.
C17_HungPutTimesOut ==
  \A r \in Reqs, x \in Roles :
    (reqs[r].pc = "await" /\ reqs[r].cur = x)
      ~> (RemoteFailed(reqs[r], x) /\ reqs[r].up[x].local # "none")

\* C20: no two stored Character records have the same id.
C20_IdsUnique ==
  \A c, d \in characters : c.oid # d.oid => c.id # d.id

\* a create was refused for an id that is taken, another one stored its
\* character and the script has converted the UUID id
C20_Witness ==
  /\ \E r, o \in Reqs :
       /\ reqs[r].kind = "create" /\ reqs[r].resp = ErrorBody(500, "Server error")
       /\ reqs[o].kind = "create" /\ Succeeded(reqs[o])
       /\ reqs[r].characterId = reqs[o].characterId
  /\ \A c \in characters : ~IsUuid(c.id)
  /\ Cardinality(characters) = 2

\* C21: for a source image of w x h pixels and a requested box W x H, the
\* profile transform gives exactly W x H (400 x 400 when none is asked for)
\* and the background transform (box 1200 x 800 when none is asked for)
\* gives w' x h' with w' <= W, h' <= H, w' <= w, h' <= h and the aspect
\* ratio of the source, to within the pixel the rounding of one axis costs.
C21_Box(isBackground) ==
  [width |-> Default(ret.options.width, IF isBackground THEN 1200 ELSE 400),
   height |-> Default(ret.options.height, IF isBackground THEN 800 ELSE 400)]

Abs(x) == IF x < 0 THEN 0 - x ELSE x

C21_SameAspect(src, out) ==
  \/ Abs(out.height * src.width - src.height * out.width) < src.width
  \/ Abs(out.width * src.height - src.width * out.height) < src.height

C21_TransformSizes ==
  /\ ret.fn \in {"uploadProfile", "saveProfile"} => ret.info = C21_Box(FALSE)
  /\ ret.fn \in {"uploadBackground", "saveBackground"} =>
       /\ ret.info.width >= 1 /\ ret.info.height >= 1
       /\ ret.info.width <= C21_Box(TRUE).width
       /\ ret.info.height <= C21_Box(TRUE).height
       /\ ret.info.width <= ret.image.width
       /\ ret.info.height <= ret.image.height
       /\ C21_SameAspect(ret.image, ret.info)

\* a background larger than the default box on both axes is shrunk to the
\* box's width
C21_Witness ==
  /\ ret.fn = "uploadBackground" /\ ret.options = NoSize
  /\ ret.image = [width |-> 2400, height |-> 1201]
  /\ ret.info.width = 1200 /\ ret.info.height < 800

\* C22: within one upload the local save is entered and made only after
\* the remote attempt of that upload has failed, an upload whose remote
\* attempt succeeded makes no local save, and the step in which a remote
\* attempt succeeds leaves the local backend as it was.
C22_Sequential ==
  /\ [](\A r \in Reqs, x \in Roles :
          /\ reqs[r].up[x].local # "none" \/ (reqs[r].pc = "local" /\ reqs[r].cur = x)
               => RemoteFailed(reqs[r], x)
          /\ reqs[r].up[x].remote = "ok" => reqs[r].up[x].local = "none")
  /\ [][\A r \in Reqs, x \in Roles :
          reqs[r].up[x].remote # "ok" /\ reqs'[r].up[x].remote = "ok" =>
            localStore' = localStore]_vars

\* one request stored its profile image remotely and its background image
\* locally
C22_Witness ==
  \E r \in Reqs :
    /\ Succeeded(reqs[r])
    /\ reqs[r].up["profile"].remote = "ok" /\ reqs[r].up["profile"].local = "none"
    /\ RemoteFailed(reqs[r], "background") /\ LocalSaved(reqs[r], "background")
    /\ \A k \in localStore : k.role = "background"
    /\ localStore # {}

\* C23: when the remote attempt of an upload failed at its PUT and the
\* local fallback stores the object, the key it is stored under is the key
\* the remote attempt was made with: same owner, role and timestamp.
C23_SameKey ==
  [][\A r \in Reqs, x \in Roles :
       /\ reqs[r].up[x].remote = "fail"
       /\ reqs[r].up[x].local = "none" /\ reqs'[r].up[x].local = "ok"
       => /\ reqs'[r].up[x].at = reqs[r].up[x].at
          /\ BuildKey(reqs[r].characterId, x = "background", reqs[r].up[x].at)
               \in localStore']_vars

InFlight(u) ==
  /\ reqs[u[1]].pc \notin {"idle", "done"}
  /\ FileOf(reqs[u[1]], u[2]) # NoFile

C25_StagedPathsDistinct ==
  \A u, v \in Uploads :
    u # v /\ InFlight(u) /\ InFlight(v) =>
      FileOf(reqs[u[1]], u[2]) # FileOf(reqs[v[1]], v[2])

\* C26: a createCharacter answered 400, an updateCharacter answered 404
\* and a create or update ended by the failure of its profile image in both
\* backends leave none of the files staged for the request behind (a path
\* another request in flight has staged as well is that request's).
C26_EarlyExit(q) ==
  /\ q.pc = "done"
  /\ \/ q.kind = "create" /\ q.resp.status = 400
     \/ q.kind = "update" /\ q.resp.status = 404
     \/ q.kind \in {"create", "update"} /\ BothFailed(q, "profile")

C26_EarlyExitCleans ==
  \A r \in Reqs, x \in Roles :
    C26_EarlyExit(reqs[r]) /\ FileOf(reqs[r], x) # NoFile =>
      \/ tempFiles[FileOf(reqs[r], x)] = "absent"
      \/ \E v \in Uploads :
            v[1] # r /\ InFlight(v) /\ FileOf(reqs[v[1]], v[2]) = FileOf(reqs[r], x)

\* C27: however often the MongoDB connection is lost and re-established,
\* app.listen is called at most once and the process does not exit for a
\* port that is in use.
C27_ListensOnce == server.listens <= 1 /\ server.exit # "EADDRINUSE"

\* C28: an updateCharacter whose new profile image is stored by neither
\* backend answers 500, and no step of an updateCharacter other than the one
\* in which it answers with success writes to the Character collection: the
\* new name, the URLs and updatedAt of the failed request are not persisted.
C28_FailedUpdateWritesNothing ==
  /\ [](\A r \in Reqs :
          reqs[r].kind = "update" /\ BothFailed(reqs[r], "profile") =>
            /\ reqs[r].pc = "done"
            /\ reqs[r].resp = ErrorBody(500, "Failed to upload updated image"))
  /\ [][\A r \in Reqs :
          reqs'[r] # reqs[r] /\ reqs'[r].kind = "update" /\ ~Succeeded(reqs'[r]) =>
            characters' = characters]_vars

\* an update that sent a new name with a profile image neither backend
\* stored has answered 500, after the clock moved: the record is as it was
C28_Witness ==
  \E r \in Reqs :
    /\ reqs[r].kind = "update" /\ reqs[r].pc = "done"
    /\ BothFailed(reqs[r], "profile")
    /\ reqs[r].resp.status = 500
    /\ "name" \in reqs[r].mod /\ reqs[r].doc.name # LegacyChar.name
    /\ reqs[r].doc.oid = LegacyChar.oid
    /\ now > 0
    /\ characters = {LegacyChar}

\* C29: no step of a create, update, delete or chat request makes an
\* inactive Character record active again; an updateCharacter is answered
\* 404 only for an id no record has, and one that succeeds on a record it
\* loaded inactive leaves it inactive.
C29_SoftDeleteIrreversible ==
  /\ [][\A c \in characters, d \in characters' :
          c.oid = d.oid /\ ~c.isActive => ~d.isActive]_vars
  /\ [][\A r \in Reqs :
          Answers(r) /\ reqs'[r].kind = "update" =>
            /\ reqs'[r].resp.status = 404 => FindOne(characters, reqs'[r].characterId) = {}
            /\ Succeeded(reqs'[r]) /\ ~reqs[r].doc.isActive =>
                 \E d \in Inactive(characters') : d.oid = reqs'[r].doc.oid]_vars

\* a soft delete has answered 200 and an update that loaded the record
\* after it has renamed the record, which is still inactive
C29_Witness ==
  \E r, o \in Reqs :
    /\ reqs[r].kind \in {"delete", "adminDelete"} /\ reqs[r].resp.status = 200
    /\ reqs[o].kind = "update" /\ Succeeded(reqs[o])
    /\ reqs[o].doc.oid = reqs[r].doc.oid
    /\ ~reqs[o].doc.isActive /\ "name" \in reqs[o].mod
    /\ \E d \in Inactive(characters) : d.oid = reqs[o].doc.oid /\ d.name = reqs[o].doc.name

\* C30: a chat request, standard or premium, whose provider call failed
\* has answered 200 with one of the ten fixed fallback messages; a chat
\* request answered with a 5xx has not had its provider call fail: the
\* answer is made in the step in which the save finds the record gone.
FallbackMessages ==
  {"Baby, I'm having trouble connecting", "Sweetheart! I miss you so much",
   "Honey, I can't seem to respond", "Omg sorry babe!", "Baby I'm so sorry!",
   "Sorry sweetheart", "I apologize for the delay", "Oh no", "I'm experiencing",
   "Sorry for the interruption"}

ChatKinds == {"chat", "premium"}

C30_Rejected ==
  \E r \in Reqs : reqs[r].kind = "chat" /\ reqs[r].resp.status = 500

====
